---- MODULE Spec2Model ----
(***************************************************************************)
(* A model of script.js, the recurring-expense budget page: the expense    *)
(* form (three containers of expense items and the pay-day select), the    *)
(* two totals updateTotals computes, and the budgetData entry of           *)
(* localStorage.                                                           *)
(*                                                                         *)
(* Modelling conventions                                                   *)
(*  - A field value (a DOM string) is a sequence of one-character strings, *)
(*    so that parseFloat and parseInt are computed, not assumed.  The      *)
(*    alphabet is the decimal digits and letters: signs, fractions,        *)
(*    exponents, white space and "Infinity" are outside the model.         *)
(*  - A JavaScript number is a record [nan, num, den]: NaN, or the exact   *)
(*    rational num/den in lowest terms.  Rounding of IEEE doubles is       *)
(*    outside the model.                                                   *)
(*  - A Date is its time value.  The unit of time is one minute, not one   *)
(*    millisecond, and local time is taken without a zone offset or        *)
(*    daylight-saving changes.  The calendar is ECMAScript's.              *)
(***************************************************************************)
EXTENDS Integers, Sequences, FiniteSets

(***************************************************************************)
(* Bounds of the model.                                                    *)
(***************************************************************************)
\* Months the clock is drawn from, starting with January 2023: a February of
\* 28 days and one of 29, months of 30 and of 31 days, and a turn of the year.
NumMonths == 14
\* Expense items the form holds at once, over the three containers.
MaxItems == 2
\* Iterations after which the model stops the search loop of the weekly callback.
MaxSearchSteps == 9

(***************************************************************************)
(* Constants of the program.                                               *)
(***************************************************************************)
DAYS_IN_MONTH == 31
DAYS_IN_WEEK == 7
\* 1000 * 60 * 60 * 24 milliseconds in the source; minutes here.
MS_PER_DAY == 60 * 24

(***************************************************************************)
(* JavaScript numbers.                                                     *)
(***************************************************************************)
RECURSIVE GCD(_, _)
GCD(a, b) == IF b = 0 THEN a ELSE GCD(b, a % b)

Abs(n) == IF n < 0 THEN -n ELSE n

NaN == [nan |-> TRUE, num |-> 0, den |-> 1]

\* The rational n/d (d > 0) in lowest terms.
Rat(n, d) ==
    LET g == GCD(Abs(n), d)
    IN  [nan |-> FALSE, num |-> n \div g, den |-> d \div g]

Num(n) == [nan |-> FALSE, num |-> n, den |-> 1]

\* a + b
Add(a, b) ==
    IF a.nan \/ b.nan THEN NaN
    ELSE Rat(a.num * b.den + b.num * a.den, a.den * b.den)

\* a * b
Mul(a, b) ==
    IF a.nan \/ b.nan THEN NaN
    ELSE Rat(a.num * b.num, a.den * b.den)

\* a / b for integers a and b > 0
Div(a, b) == Rat(a, b)

\* x || dflt for a number x: NaN and 0 are falsy.
OrElse(x, dflt) == IF x.nan \/ x.num = 0 THEN dflt ELSE x

\* Math.ceil(a / b) for integers a and b > 0
Ceil(a, b) == -((-a) \div b)

Max(a, b) == IF a >= b THEN a ELSE b

(***************************************************************************)
(* Strings, parseFloat and parseInt.                                       *)
(***************************************************************************)
Digits == <<"0", "1", "2", "3", "4", "5", "6", "7", "8", "9">>

IsDigit(c) == \E i \in 1..10 : Digits[i] = c

DigitVal(c) == (CHOOSE i \in 1..10 : Digits[i] = c) - 1

\* Length of the longest prefix of s made of digits.
RECURSIVE DigitPrefixLen(_)
DigitPrefixLen(s) ==
    IF s = <<>> \/ ~IsDigit(Head(s)) THEN 0 ELSE 1 + DigitPrefixLen(Tail(s))

\* Value of the digit string s read after the value acc.
RECURSIVE DigitsValue(_, _)
DigitsValue(s, acc) ==
    IF s = <<>> THEN acc ELSE DigitsValue(Tail(s), 10 * acc + DigitVal(Head(s)))

\* parseFloat(s): the number the longest numeric prefix denotes, NaN without one.
parseFloat(s) ==
    LET n == DigitPrefixLen(s)
    IN  IF n = 0 THEN NaN ELSE Num(DigitsValue(SubSeq(s, 1, n), 0))

\* parseInt(s): as parseFloat on the model's alphabet.
parseInt(s) ==
    LET n == DigitPrefixLen(s)
    IN  IF n = 0 THEN NaN ELSE Num(DigitsValue(SubSeq(s, 1, n), 0))

\* String(n) for a natural number n.
RECURSIVE NumberToString(_)
NumberToString(n) ==
    IF n < 10 THEN <<Digits[n + 1]>> ELSE NumberToString(n \div 10) \o <<Digits[(n % 10) + 1]>>

(***************************************************************************)
(* Dates: ECMAScript's calendar on time values.                            *)
(***************************************************************************)
InLeapYear(y) == (y % 4 = 0 /\ y % 100 # 0) \/ y % 400 = 0

\* Number of the first day of year y, counted from 1 January 1970.
DayFromYear(y) ==
    365 * (y - 1970) + ((y - 1969) \div 4) - ((y - 1901) \div 100) + ((y - 1601) \div 400)

\* Days of a common year before each month, and the year's length.
CumulativeDays == <<0, 31, 59, 90, 120, 151, 181, 212, 243, 273, 304, 334, 365>>

\* Days of year y before its month m (0 = January; m = 12 gives the year's length).
DaysBeforeMonth(y, m) ==
    CumulativeDays[m + 1] + (IF m >= 2 /\ InLeapYear(y) THEN 1 ELSE 0)

\* MakeDay(year, month, date): month and date may lie outside their ranges.
MakeDay(year, month, date) ==
    LET ym == year + (month \div 12)
        mn == month % 12
    IN  DayFromYear(ym) + DaysBeforeMonth(ym, mn) + date - 1

Day(t) == t \div MS_PER_DAY

TimeWithinDay(t) == t % MS_PER_DAY

\* YearFromTime, MonthFromTime and DateFromTime of a day, from its number.
YearOfDay(d) ==
    CHOOSE y \in (1970 + (d \div 366)) .. (1970 + (d \div 365)) :
        DayFromYear(y) <= d /\ d < DayFromYear(y + 1)

MonthOfDay(d) ==
    LET y == YearOfDay(d)
        n == d - DayFromYear(y)
    IN  CHOOSE m \in 0..11 : DaysBeforeMonth(y, m) <= n /\ n < DaysBeforeMonth(y, m + 1)

DateOfDay(d) ==
    LET y == YearOfDay(d)
    IN  d - DayFromYear(y) - DaysBeforeMonth(y, MonthOfDay(d)) + 1

\* The three, tabulated over the days the model's dates lie in: from the first
\* day of the clock to the end of the third month after its last.
DateFields ==
    [d \in MakeDay(2023, 0, 1) .. (MakeDay(2023, NumMonths + 3, 1) - 1) |->
        [year |-> YearOfDay(d), month |-> MonthOfDay(d), date |-> DateOfDay(d)]]

YearFromTime(t) == DateFields[Day(t)].year

MonthFromTime(t) == DateFields[Day(t)].month

DateFromTime(t) == DateFields[Day(t)].date

\* Date.prototype.getDay: 0 = Sunday; 1 January 1970 was a Thursday.
WeekDay(t) == (Day(t) + 4) % 7

\* new Date(year, month, date): midnight of that day.
NewDate(year, month, date) == MakeDay(year, month, date) * MS_PER_DAY

\* d.setDate(d.getDate() + n)
AdvanceDate(t, n) ==
    LET f == DateFields[Day(t)]
    IN  MakeDay(f.year, f.month, f.date + n) * MS_PER_DAY + TimeWithinDay(t)

\* d.setMonth(month)
SetMonth(t, month) ==
    MakeDay(YearFromTime(t), month, DateFromTime(t)) * MS_PER_DAY + TimeWithinDay(t)

(***************************************************************************)
(* The page.                                                               *)
(***************************************************************************)
VARIABLES
    clock,             \* the host's clock: what new Date() returns
    today,             \* today of the last calculateExpensesUntilPayday call
    payDayInput,       \* value of select[name="pay-day"]
    monthlyContainer,  \* the .expense-item elements of each container, in
    weeklyContainer,   \*   document order: records of field values
    dailyContainer,
    localStorage,      \* <<>> without a budgetData item, else <<its data>>
    monthlyTotal,      \* the number shown in #monthly-total
    paydayTotal,       \* the number shown in #payday-total
    rendered,          \* updateTotals has written the two totals
    pc,                \* position in the stepwise weekly callback
    nextOccurrence,    \* its nextOccurrence
    occurrences,       \* its occurrences
    searchSteps        \* iterations its search loop has made

vars ==
    <<clock, today, payDayInput, monthlyContainer, weeklyContainer, dailyContainer,
      localStorage, monthlyTotal, paydayTotal, rendered, pc, nextOccurrence,
      occurrences, searchSteps>>

pageVars ==
    <<today, payDayInput, monthlyContainer, weeklyContainer, dailyContainer,
      localStorage, monthlyTotal, paydayTotal, rendered>>

loopVars == <<pc, nextOccurrence, occurrences, searchSteps>>

(***************************************************************************)
(* The markup the script runs against: the templates and the selects'      *)
(* options.                                                                *)
(***************************************************************************)
\* The options of a select listing the numbers lo..hi.
NumberOptions(lo, hi) == {NumberToString(n) : n \in lo..hi}

PayDayOptions == NumberOptions(1, 31)

DefaultPayDay == NumberToString(25)

\* The options of the day select of a monthly or weekly item: blank until chosen.
DayOptions(type) ==
    IF type = "monthly" THEN {<<>>} \cup NumberOptions(1, 31)
    ELSE {<<>>} \cup NumberOptions(0, 6)

\* The names of the inputs of an expense template.
TemplateFields(type) ==
    IF type = "daily" THEN {"name", "amount"} ELSE {"name", "amount", "day"}

\* A clone of an expense template: every input blank.
TemplateItem(type) == [f \in TemplateFields(type) |-> <<>>]

\* select.value = v: a value that is no option leaves nothing selected.
SelectValue(options, v) == IF v \in options THEN v ELSE <<>>

(***************************************************************************)
(* updateTotals: the monthly total.                                        *)
(***************************************************************************)
\* multipliers with a month of 30 days.
multipliersThirtyDays ==
    [monthly |-> Num(1),
     weekly |-> Div(30, DAYS_IN_WEEK),
     daily |-> Num(30)]

multipliers ==
    [monthly |-> Num(1),
     weekly |-> Div(DAYS_IN_MONTH, DAYS_IN_WEEK),
     daily |-> Num(DAYS_IN_MONTH)]

\* The reduce over the "<type>-amount" entries of one container, from total.
RECURSIVE AmountEntries(_, _, _)
AmountEntries(items, type, total) ==
    IF items = <<>> THEN total
    ELSE AmountEntries(Tail(items), type,
            Add(total, Mul(OrElse(parseFloat(Head(items).amount), Num(0)),
                           OrElse(multipliers[type], Num(0)))))

\* monthlyTotal of updateTotals, over the form's entries in document order.
computeMonthlyTotal(mc, wc, dc) ==
    AmountEntries(dc, "daily", AmountEntries(wc, "weekly", AmountEntries(mc, "monthly", Num(0))))

\* payDay of updateTotals: parseInt(formData.get("pay-day")) || 25
payDayOf(field) == OrElse(parseInt(field), Num(25)).num

(***************************************************************************)
(* calculateExpensesUntilPayday.                                           *)
(***************************************************************************)
currentDay(now) == DateFromTime(now)
currentMonth(now) == MonthFromTime(now)
currentYear(now) == YearFromTime(now)

\* payDayDate, from payDay and the three fields of today.
payDayDate(payDay, cDay, cMonth, cYear) ==
    IF payDay <= cDay
    THEN NewDate(cYear, cMonth + 1, payDay)
    ELSE NewDate(cYear, cMonth, payDay)

\* parseFloat(expense.querySelector(selector)?.value || 0)
getExpenseAmount(expense) ==
    parseFloat(IF expense.amount = <<>> THEN NumberToString(0) ELSE expense.amount)

\* daysUntilPayday with Math.floor for Math.ceil.
daysUntilPaydayFloor(now, payDay, cDay, cMonth, payDate) ==
    IF cDay = payDay /\ MonthFromTime(payDate) = cMonth
    THEN 1
    ELSE (payDate - now) \div MS_PER_DAY

\* daysUntilPayday of the daily callback, after the payday edge case.
daysUntilPayday(now, payDay, cDay, cMonth, payDate) ==
    IF cDay = payDay /\ MonthFromTime(payDate) = cMonth
    THEN 1
    ELSE Ceil(payDate - now, MS_PER_DAY)

RECURSIVE dailyExpenses(_, _, _, _, _, _, _)
dailyExpenses(items, total, now, payDay, cDay, cMonth, payDate) ==
    IF items = <<>> THEN total
    ELSE dailyExpenses(Tail(items),
            Add(total, Mul(getExpenseAmount(Head(items)),
                           Num(Max(0, daysUntilPayday(now, payDay, cDay, cMonth, payDate))))),
            now, payDay, cDay, cMonth, payDate)

\* The condition of the loop that looks for the next occurrence of targetDay.
SearchCondition(next, now, targetDay) ==
    (targetDay.nan \/ Num(WeekDay(next)) # targetDay) \/ next <= now

\* while (...) nextOccurrence.setDate(nextOccurrence.getDate() + 1)
RECURSIVE FindNextOccurrence(_, _, _)
FindNextOccurrence(next, now, targetDay) ==
    IF SearchCondition(next, now, targetDay)
    THEN FindNextOccurrence(AdvanceDate(next, 1), now, targetDay)
    ELSE next

\* CountCondition with <= for <.
CountConditionInclusive(next, payDate) == next <= payDate

\* The condition of the loop that counts the occurrences before payday.
CountCondition(next, payDate) == next < payDate

\* while (...) { occurrences++; nextOccurrence.setDate(... + DAYS_IN_WEEK) }
RECURSIVE CountOccurrences(_, _)
CountOccurrences(next, payDate) ==
    IF CountCondition(next, payDate)
    THEN 1 + CountOccurrences(AdvanceDate(next, DAYS_IN_WEEK), payDate)
    ELSE 0

\* occurrences of one weekly item whose day field is not blank.
weeklyOccurrences(dayOfWeek, now, payDate) ==
    CountOccurrences(FindNextOccurrence(now, now, parseInt(dayOfWeek)), payDate)

RECURSIVE weeklyExpenses(_, _, _, _)
weeklyExpenses(items, total, now, payDate) ==
    IF items = <<>> THEN total
    ELSE LET expense == Head(items)
             amount == getExpenseAmount(expense)
         IN  weeklyExpenses(Tail(items),
                IF expense.day = <<>> THEN total
                ELSE Add(total, Mul(amount, Num(weeklyOccurrences(expense.day, now, payDate)))),
                now, payDate)

\* dayOfMonth of the monthly callback: parseInt(value || 1)
dayOfMonthOf(expense) ==
    parseInt(IF expense.day = <<>> THEN NumberToString(1) ELSE expense.day)

\* expenseDate of the monthly callback, for a dayOfMonth that is a number.
expenseDate(dayOfMonth, cDay, cMonth, cYear) ==
    LET created == NewDate(cYear, cMonth, dayOfMonth)
    IN  IF dayOfMonth <= cDay
        THEN SetMonth(created, MonthFromTime(created) + 1)
        ELSE created

\* Whether a monthly item is included: expenseDate < payDayDate.  A dayOfMonth
\* of NaN makes an invalid date, which compares false.
monthlyIncluded(expense, cDay, cMonth, cYear, payDate) ==
    LET dayOfMonth == dayOfMonthOf(expense)
    IN  /\ ~dayOfMonth.nan
        /\ expenseDate(dayOfMonth.num, cDay, cMonth, cYear) < payDate

RECURSIVE monthlyExpenses(_, _, _, _, _, _)
monthlyExpenses(items, total, cDay, cMonth, cYear, payDate) ==
    IF items = <<>> THEN total
    ELSE LET expense == Head(items)
             amount == getExpenseAmount(expense)
         IN  monthlyExpenses(Tail(items),
                IF monthlyIncluded(expense, cDay, cMonth, cYear, payDate)
                THEN Add(total, amount) ELSE total,
                cDay, cMonth, cYear, payDate)

calculateExpensesUntilPayday(payDay, now, mc, wc, dc) ==
    LET cDay == currentDay(now)
        cMonth == currentMonth(now)
        cYear == currentYear(now)
        payDate == payDayDate(payDay, cDay, cMonth, cYear)
    IN  Add(Add(dailyExpenses(dc, Num(0), now, payDay, cDay, cMonth, payDate),
                weeklyExpenses(wc, Num(0), now, payDate)),
            monthlyExpenses(mc, Num(0), cDay, cMonth, cYear, payDate))

(***************************************************************************)
(* Persistence.                                                            *)
(***************************************************************************)
\* A JavaScript string as a condition: the empty string is falsy.
Truthy(s) == s # <<>>

\* The data of one item: key "name", "amount" or "day" of each field, the
\* value of its input or "" without one.
ItemData(expense, fields) ==
    [f \in fields |-> IF f \in DOMAIN expense THEN expense[f] ELSE <<>>]

\* extractExpenseData keeping the items with a name only.
RECURSIVE extractNamedExpenses(_, _)
extractNamedExpenses(container, fields) ==
    IF container = <<>> THEN <<>>
    ELSE LET data == ItemData(Head(container), fields)
             rest == extractNamedExpenses(Tail(container), fields)
         IN  IF Truthy(data.name) THEN <<data>> \o rest ELSE rest

\* .filter(Boolean) over the mapped items: null where no value is truthy.
RECURSIVE extractExpenseData(_, _)
extractExpenseData(container, fields) ==
    IF container = <<>> THEN <<>>
    ELSE LET data == ItemData(Head(container), fields)
             rest == extractExpenseData(Tail(container), fields)
         IN  IF \E f \in fields : Truthy(data[f]) THEN <<data>> \o rest ELSE rest

\* The object saveToLocalStorage stores under budgetData.
SavedData(mc, wc, dc, pd) ==
    [monthlyExpenses |-> extractExpenseData(mc, {"name", "amount", "day"}),
     weeklyExpenses |-> extractExpenseData(wc, {"name", "amount", "day"}),
     dailyExpenses |-> extractExpenseData(dc, {"name", "amount"}),
     payDay |-> pd]

\* createExpenseItem(template, data): each field of data that names an input of
\* the template sets it; data.day of a daily record is undefined and has no input.
createExpenseItem(type, data) ==
    [f \in TemplateFields(type) |->
        IF f \notin DOMAIN data THEN TemplateItem(type)[f]
        ELSE IF f = "day" THEN SelectValue(DayOptions(type), data[f])
        ELSE data[f]]

\* loadExpenses: one clone per saved expense, appended to the container.
RECURSIVE loadExpenses(_, _, _)
loadExpenses(expenses, container, type) ==
    IF expenses = <<>> THEN container
    ELSE loadExpenses(Tail(expenses),
                      Append(container, createExpenseItem(type, Head(expenses))), type)

\* The pay-day select after loadFromLocalStorage's if (data.payDay).
loadPayDay(data, current) ==
    IF Truthy(data.payDay) THEN SelectValue(PayDayOptions, data.payDay) ELSE current

(***************************************************************************)
(* The handlers.                                                           *)
(***************************************************************************)
\* updateTotals on the form as given, at the clock's time.
updateTotals(mc, wc, dc, pd) ==
    /\ today' = clock
    /\ monthlyTotal' = computeMonthlyTotal(mc, wc, dc)
    /\ paydayTotal' = calculateExpensesUntilPayday(payDayOf(pd), clock, mc, wc, dc)
    /\ rendered' = TRUE

saveToLocalStorage(mc, wc, dc, pd) ==
    localStorage' = <<SavedData(mc, wc, dc, pd)>>

updateAndSave(mc, wc, dc, pd) ==
    /\ updateTotals(mc, wc, dc, pd)
    /\ saveToLocalStorage(mc, wc, dc, pd)

Container(type) ==
    IF type = "monthly" THEN monthlyContainer
    ELSE IF type = "weekly" THEN weeklyContainer ELSE dailyContainer

\* The handler's effect once the container of `type` has become `items`.
WithContainer(type, items) ==
    LET mc == IF type = "monthly" THEN items ELSE monthlyContainer
        wc == IF type = "weekly" THEN items ELSE weeklyContainer
        dc == IF type = "daily" THEN items ELSE dailyContainer
    IN  /\ monthlyContainer' = mc
        /\ weeklyContainer' = wc
        /\ dailyContainer' = dc
        /\ updateAndSave(mc, wc, dc, payDayInput)

ItemCount == Len(monthlyContainer) + Len(weeklyContainer) + Len(dailyContainer)

Types == {"monthly", "weekly", "daily"}

\* A click on an add button.
addExpense(type) ==
    /\ ItemCount < MaxItems
    /\ WithContainer(type, Append(Container(type), TemplateItem(type)))
    /\ UNCHANGED <<clock, payDayInput>>
    /\ UNCHANGED loopVars

RemoveAt(s, i) == SubSeq(s, 1, i - 1) \o SubSeq(s, i + 1, Len(s))

\* A click on the remove button of item i.
removeExpense(type, i) ==
    /\ i \in 1..Len(Container(type))
    /\ WithContainer(type, RemoveAt(Container(type), i))
    /\ UNCHANGED <<clock, payDayInput>>
    /\ UNCHANGED loopVars

\* The values the user gives a field.
NameValues(type) == IF type = "daily" THEN {<<>>, <<"a">>} ELSE {<<>>}
AmountValues == {<<>>, <<"2">>, <<"x">>}
DayValues(type) ==
    IF type = "monthly" THEN {<<>>, NumberToString(20)} ELSE {<<>>, NumberToString(3)}
FieldValues(type, f) ==
    IF f = "name" THEN NameValues(type)
    ELSE IF f = "amount" THEN AmountValues ELSE DayValues(type)
PayDayValues == {NumberToString(10), NumberToString(25)}

\* An input event of field f of item i: the user has changed its value to v.
inputField(type, i, f, v) ==
    /\ i \in 1..Len(Container(type))
    /\ Container(type)[i][f] # v
    /\ WithContainer(type, [Container(type) EXCEPT ![i][f] = v])
    /\ UNCHANGED <<clock, payDayInput>>
    /\ UNCHANGED loopVars

\* A change event of the pay-day select: the user has chosen v.
changePayDay(v) ==
    /\ payDayInput # v
    /\ payDayInput' = v
    /\ updateAndSave(monthlyContainer, weeklyContainer, dailyContainer, v)
    /\ UNCHANGED <<clock, monthlyContainer, weeklyContainer, dailyContainer>>
    /\ UNCHANGED loopVars

\* A change event that follows the input events of a field: the form is as
\* they left it.
formEvent ==
    /\ updateAndSave(monthlyContainer, weeklyContainer, dailyContainer, payDayInput)
    /\ UNCHANGED <<clock, payDayInput, monthlyContainer, weeklyContainer, dailyContainer>>
    /\ UNCHANGED loopVars

\* The page is loaded: the script runs on the markup as served, and
\* loadFromLocalStorage fills it from budgetData.
pageLoad ==
    /\ IF localStorage = <<>>
       THEN /\ payDayInput' = DefaultPayDay
            /\ monthlyContainer' = <<>>
            /\ weeklyContainer' = <<>>
            /\ dailyContainer' = <<>>
            /\ rendered' = FALSE
            /\ UNCHANGED <<today, monthlyTotal, paydayTotal>>
       ELSE LET data == localStorage[1]
                pd == loadPayDay(data, DefaultPayDay)
                mc == loadExpenses(data.monthlyExpenses, <<>>, "monthly")
                wc == loadExpenses(data.weeklyExpenses, <<>>, "weekly")
                dc == loadExpenses(data.dailyExpenses, <<>>, "daily")
            IN  /\ payDayInput' = pd
                /\ monthlyContainer' = mc
                /\ weeklyContainer' = wc
                /\ dailyContainer' = dc
                /\ updateTotals(mc, wc, dc, pd)
    /\ UNCHANGED <<clock, localStorage>>
    /\ UNCHANGED loopVars

(***************************************************************************)
(* The clock, which updateTotals reads.  It stays at one time for the     *)
(* length of a session.                                                    *)
(***************************************************************************)
TimesOfDay == {0, MS_PER_DAY - 1}

\* Every day of the NumMonths months from January 2023, at each time of day.
AllTimes ==
    {d * MS_PER_DAY + t :
        d \in MakeDay(2023, 0, 1) .. (MakeDay(2023, NumMonths, 1) - 1),
        t \in TimesOfDay}

\* The times a session is held at: noon of 10 January 2024, midnight of the 25th.
SessionTimes ==
    {NewDate(2024, 0, 10) + (MS_PER_DAY \div 2), NewDate(2024, 0, 25)}

(***************************************************************************)
(* The page in use.                                                        *)
(***************************************************************************)
LoopIdle ==
    /\ pc = "idle"
    /\ nextOccurrence = 0
    /\ occurrences = 0
    /\ searchSteps = 0

\* A page just loaded without saved data, showing no computed total yet.
FreshPage ==
    /\ today = clock
    /\ localStorage = <<>>
    /\ monthlyTotal = Num(0)
    /\ paydayTotal = Num(0)
    /\ rendered = FALSE

Init ==
    /\ clock \in SessionTimes
    /\ payDayInput = DefaultPayDay
    /\ monthlyContainer = <<>>
    /\ weeklyContainer = <<>>
    /\ dailyContainer = <<>>
    /\ FreshPage
    /\ LoopIdle

Next ==
    \/ \E type \in Types : addExpense(type)
    \/ \E type \in Types : \E i \in 1..MaxItems : removeExpense(type, i)
    \/ \E type \in Types : \E i \in 1..MaxItems : \E f \in TemplateFields(type) :
          \E v \in FieldValues(type, f) : inputField(type, i, f, v)
    \/ \E v \in PayDayValues : changePayDay(v)
    \/ formEvent
    \/ pageLoad

Spec == Init /\ [][Next]_vars

(***************************************************************************)
(* The payday projection as a function of the date, the pay day and the    *)
(* saved expenses: the page is loaded, at any time of Years, with the data *)
(* an earlier session saved.                                               *)
(***************************************************************************)
Daily(name, amount) == [name |-> name, amount |-> amount]

Dated(name, amount, day) == [name |-> name, amount |-> amount, day |-> day]

Saved(monthly, weekly, daily, payDay) ==
    [monthlyExpenses |-> monthly, weeklyExpenses |-> weekly,
     dailyExpenses |-> daily, payDay |-> payDay]

\* The markup as served, before the script has run, with `saved` in storage.
Served(times, saved) ==
    /\ clock \in times
    /\ today = clock
    /\ localStorage \in {<<data>> : data \in saved}
    /\ payDayInput = DefaultPayDay
    /\ monthlyContainer = <<>>
    /\ weeklyContainer = <<>>
    /\ dailyContainer = <<>>
    /\ monthlyTotal = Num(0)
    /\ paydayTotal = Num(0)
    /\ rendered = FALSE
    /\ LoopIdle

\* The script runs once.
firstLoad == ~rendered /\ pageLoad

\* One daily expense of 2, alone or with a weekly 10 on Wednesdays and a
\* monthly 50 on the 20th.
DailySaved ==
    {Saved(<<>>, <<>>, <<Daily(<<"d">>, NumberToString(2))>>, p) : p \in PayDayOptions}
    \cup {Saved(<<Dated(<<"m">>, NumberToString(50), NumberToString(20))>>,
                <<Dated(<<"w">>, NumberToString(10), NumberToString(3))>>,
                <<Daily(<<"d">>, NumberToString(2))>>, p) : p \in PayDayOptions}

InitDaily == Served(AllTimes, DailySaved)

SpecDaily == InitDaily /\ [][firstLoad]_vars

\* One weekly expense of 10, on each day of the week.
WeeklySaved ==
    {Saved(<<>>, <<Dated(<<"w">>, NumberToString(10), NumberToString(d))>>, <<>>, p) :
        d \in 0..6, p \in PayDayOptions}

InitWeekly == Served(AllTimes, WeeklySaved)

SpecWeekly == InitWeekly /\ [][firstLoad]_vars

\* One monthly expense of 50, on each day of the month.
MonthlySaved ==
    {Saved(<<Dated(<<"m">>, NumberToString(50), NumberToString(d))>>, <<>>, <<>>, p) :
        d \in 1..31, p \in PayDayOptions}

InitMonthly == Served(AllTimes, MonthlySaved)

SpecMonthly == InitMonthly /\ [][firstLoad]_vars

(***************************************************************************)
(* The callback of the weekly reduce, one loop iteration at a time, on a   *)
(* form that holds one weekly item.  The day field is taken as the string  *)
(* the script reads, whether or not the select offers it.                  *)
(***************************************************************************)
SearchDayValues == {<<>>, <<"x">>} \cup NumberOptions(0, 7)

InitSearch ==
    /\ clock \in SessionTimes
    /\ today = clock
    /\ payDayInput \in PayDayOptions
    /\ monthlyContainer = <<>>
    /\ weeklyContainer \in {<<Dated(<<"w">>, NumberToString(10), d)>> : d \in SearchDayValues}
    /\ dailyContainer = <<>>
    /\ localStorage = <<>>
    /\ monthlyTotal = Num(0)
    /\ paydayTotal = Num(0)
    /\ rendered = FALSE
    /\ LoopIdle

\* payDayDate of the call the callback runs in.
SearchPayDate ==
    payDayDate(payDayOf(payDayInput), currentDay(today), currentMonth(today),
               currentYear(today))

\* The callback is entered: a blank day returns at once.
enterCallback ==
    /\ pc = "idle"
    /\ IF weeklyContainer[1].day = <<>>
       THEN pc' = "done" /\ UNCHANGED nextOccurrence
       ELSE pc' = "search" /\ nextOccurrence' = today
    /\ UNCHANGED <<clock, occurrences, searchSteps>>
    /\ UNCHANGED pageVars

\* One iteration of the search loop.
searchStep ==
    /\ pc = "search"
    /\ SearchCondition(nextOccurrence, today, parseInt(weeklyContainer[1].day))
    /\ searchSteps < MaxSearchSteps
    /\ nextOccurrence' = AdvanceDate(nextOccurrence, 1)
    /\ searchSteps' = searchSteps + 1
    /\ UNCHANGED <<clock, pc, occurrences>>
    /\ UNCHANGED pageVars

\* The search loop ends.
searchExit ==
    /\ pc = "search"
    /\ ~SearchCondition(nextOccurrence, today, parseInt(weeklyContainer[1].day))
    /\ pc' = "count"
    /\ occurrences' = 0
    /\ UNCHANGED <<clock, nextOccurrence, searchSteps>>
    /\ UNCHANGED pageVars

\* One iteration of the counting loop.
countStep ==
    /\ pc = "count"
    /\ CountCondition(nextOccurrence, SearchPayDate)
    /\ occurrences' = occurrences + 1
    /\ nextOccurrence' = AdvanceDate(nextOccurrence, DAYS_IN_WEEK)
    /\ UNCHANGED <<clock, pc, searchSteps>>
    /\ UNCHANGED pageVars

\* The counting loop ends, and the callback returns.
countExit ==
    /\ pc = "count"
    /\ ~CountCondition(nextOccurrence, SearchPayDate)
    /\ pc' = "done"
    /\ UNCHANGED <<clock, nextOccurrence, occurrences, searchSteps>>
    /\ UNCHANGED pageVars

NextSearch ==
    \/ enterCallback
    \/ searchStep
    \/ searchExit
    \/ countStep
    \/ countExit

SpecSearch == InitSearch /\ [][NextSearch]_vars

\* The stepwise callback counts what weeklyOccurrences computes.
StepwiseAgrees ==
    (pc = "done" /\ weeklyContainer[1].day # <<>>) =>
        occurrences = weeklyOccurrences(weeklyContainer[1].day, today, SearchPayDate)

(***************************************************************************)
(* Properties.                                                             *)
(***************************************************************************)
\* What the last call of updateTotals computed with.
PayDay == payDayOf(payDayInput)

Today == [year |-> currentYear(today), month |-> currentMonth(today),
          date |-> currentDay(today)]

ResolvedPayday == payDayDate(PayDay, Today.date, Today.month, Today.year)

\* The month after today's, and its year.
FollowingMonth ==
    IF Today.month = 11 THEN [year |-> Today.year + 1, month |-> 0]
    ELSE [year |-> Today.year, month |-> Today.month + 1]

ThisMonth == [year |-> Today.year, month |-> Today.month]

OnlyDaily == monthlyContainer = <<>> /\ weeklyContainer = <<>> /\ Len(dailyContainer) = 1

OnlyWeekly == monthlyContainer = <<>> /\ Len(weeklyContainer) = 1 /\ dailyContainer = <<>>

OnlyMonthly == Len(monthlyContainer) = 1 /\ weeklyContainer = <<>> /\ dailyContainer = <<>>

\* C1: for every today and pay day, the resolved payday date has the pay day
\* as its day of the month, and lies in the current month when the pay day is
\* after today's day of the month, in the following month otherwise.
C1_PaydayIsPayDayOfMonth ==
    rendered =>
        LET p == DateFields[Day(ResolvedPayday)]
        IN  /\ p.date = PayDay
            /\ [year |-> p.year, month |-> p.month] =
                  IF PayDay > Today.date THEN ThisMonth ELSE FollowingMonth

\* C2: when today's day of the month is the pay day, a single daily record
\* of amount 2 contributes exactly 2 to the payday total, at any time of day.
C2_PaydayTodayCountsOneDay ==
    (rendered /\ OnlyDaily /\ Today.date = PayDay) => paydayTotal = Num(2)

\* The calendar days from today's date up to but excluding the payday date.
DaysToPayday == Cardinality(Day(today) .. (Day(ResolvedPayday) - 1))

\* The saved example: a daily 2, a Wednesday weekly 10, a monthly 50 on the 20th.
ExampleLoaded ==
    /\ Len(monthlyContainer) = 1
    /\ Len(weeklyContainer) = 1
    /\ Len(dailyContainer) = 1
    /\ Day(today) = MakeDay(2024, 0, 10)
    /\ PayDay = 25

\* C5: when the pay day differs from today's day of the month, daysUntilPayday
\* is the number of calendar days from today's date up to but excluding the
\* payday date, at any time of day, and a daily record contributes its amount
\* times that number; on 2024-01-10 with pay day 25 it is 15, and the example
\* collection totals 100.
C5_DailyCountsCalendarDays ==
    (rendered /\ Today.date # PayDay) =>
        /\ daysUntilPayday(today, PayDay, Today.date, Today.month, ResolvedPayday)
              = DaysToPayday
        /\ Day(ResolvedPayday) > Day(today)
        /\ OnlyDaily => paydayTotal = Num(2 * DaysToPayday)
        /\ ExampleLoaded => (DaysToPayday = 15 /\ paydayTotal = Num(100))

\* C5 witness: the example is loaded at a time of day after midnight.
C5_Witness ==
    /\ rendered
    /\ ExampleLoaded
    /\ TimeWithinDay(today) > 0
    /\ paydayTotal = Num(100)

\* The dates strictly between today and the payday date that fall on weekday w:
\* day d of the epoch is weekday (d + 4) % 7.
MatchingDates(w) ==
    {d \in (Day(today) + 1) .. (Day(ResolvedPayday) - 1) : (d + 4) % 7 = w}

TargetDay == parseInt(weeklyContainer[1].day).num

\* C3: a weekly record of amount 10 contributes 10 for each calendar date
\* strictly after today and strictly before the payday date that falls on its
\* weekday, at any time of day: neither today nor the payday date is counted.
C3_WeeklyCountsDatesBetween ==
    (rendered /\ OnlyWeekly) =>
        paydayTotal = Num(10 * Cardinality(MatchingDates(TargetDay)))

\* C3 witness: today falls on the record's weekday and payday is 14 days away,
\* 7 days after the first matching date: one occurrence is counted.
C3_Witness ==
    /\ rendered
    /\ OnlyWeekly
    /\ WeekDay(today) = TargetDay
    /\ TimeWithinDay(today) > 0
    /\ Day(ResolvedPayday) = Day(today) + 2 * DAYS_IN_WEEK
    /\ paydayTotal = Num(10)

DayOfMonth == parseInt(monthlyContainer[1].day).num

\* Whether day d of month m precedes the date p, as calendar dates.
DayPrecedes(m, d, p) ==
    \/ m.year < p.year
    \/ m.year = p.year /\ m.month < p.month
    \/ m.year = p.year /\ m.month = p.month /\ d < p.date

\* The month a monthly record's candidate date is in.
CandidateMonth == IF DayOfMonth > Today.date THEN ThisMonth ELSE FollowingMonth

\* C4: a monthly record on day d contributes its amount or 0; its candidate
\* date is day d of the current month when d is after today's day of the month
\* and day d of the following month otherwise, and the amount is included
\* exactly when that date is strictly before the payday date.
C4_MonthlyCandidate ==
    (rendered /\ OnlyMonthly) =>
        LET c == DateFields[Day(expenseDate(DayOfMonth, Today.date, Today.month, Today.year))]
            p == DateFields[Day(ResolvedPayday)]
        IN  /\ paydayTotal \in {Num(0), Num(50)}
            /\ c.date = DayOfMonth
            /\ [year |-> c.year, month |-> c.month] = CandidateMonth
            /\ paydayTotal = Num(50) <=> DayPrecedes(CandidateMonth, DayOfMonth, p)

\* C10: a monthly record whose day of the month is today's contributes 0 to
\* the payday total, for every today and pay day.
C10_DueTodayNeverCounted ==
    (rendered /\ OnlyMonthly /\ DayOfMonth = Today.date) => paydayTotal = Num(0)

\* The amount of a record, 0 when it does not parse.
AmountOrZero(expense) ==
    LET a == parseFloat(expense.amount) IN IF a.nan THEN Num(0) ELSE a

RECURSIVE SumOfAmounts(_)
SumOfAmounts(items) ==
    IF items = <<>> THEN Num(0) ELSE Add(SumOfAmounts(Tail(items)), AmountOrZero(Head(items)))

\* The orders a sequence of n records can be put in.
Orders(n) == {f \in [1..n -> 1..n] : \A i, j \in 1..n : f[i] = f[j] => i = j}

Reordered(items, f) == [i \in 1..Len(items) |-> items[f[i]]]

\* C6: the monthly total is the sum of the monthly amounts, 31/7 of the weekly
\* amounts and 31 times the daily amounts, whatever today and the pay day are;
\* it is the same for every order of the records of a cadence, and 0 for an
\* empty collection.
C6_MonthlyTotalIsWeightedSum ==
    rendered =>
        /\ monthlyTotal =
              Add(SumOfAmounts(monthlyContainer),
                  Add(Mul(Rat(31, 7), SumOfAmounts(weeklyContainer)),
                      Mul(Num(31), SumOfAmounts(dailyContainer))))
        /\ \A f \in Orders(Len(monthlyContainer)) :
              computeMonthlyTotal(Reordered(monthlyContainer, f), weeklyContainer,
                                  dailyContainer) = monthlyTotal
        /\ \A f \in Orders(Len(weeklyContainer)) :
              computeMonthlyTotal(monthlyContainer, Reordered(weeklyContainer, f),
                                  dailyContainer) = monthlyTotal
        /\ \A f \in Orders(Len(dailyContainer)) :
              computeMonthlyTotal(monthlyContainer, weeklyContainer,
                                  Reordered(dailyContainer, f)) = monthlyTotal
        /\ ItemCount = 0 => monthlyTotal = Num(0)

\* C6 witness: a weekly 2 and a daily 2 total 2 * 31/7 + 2 * 31.
C6_Witness ==
    /\ rendered
    /\ monthlyContainer = <<>>
    /\ Len(weeklyContainer) = 1
    /\ weeklyContainer[1].amount = <<"2">>
    /\ Len(dailyContainer) = 1
    /\ dailyContainer[1].amount = <<"2">>
    /\ monthlyTotal = Rat(62 + 62 * 7, 7)

\* The records whose amount is blank or parses.
Parseable(items) ==
    SelectSeq(items, LAMBDA e : e.amount = <<>> \/ ~parseFloat(e.amount).nan)

\* C7: a record whose amount is not blank and does not parse counts as 0 in
\* both totals: they are numbers, and equal the totals of the other records.
C7_UnparseableAmountIsZero ==
    rendered =>
        /\ ~monthlyTotal.nan
        /\ ~paydayTotal.nan
        /\ monthlyTotal = computeMonthlyTotal(Parseable(monthlyContainer),
                              Parseable(weeklyContainer), Parseable(dailyContainer))
        /\ paydayTotal = calculateExpensesUntilPayday(PayDay, today,
                              Parseable(monthlyContainer), Parseable(weeklyContainer),
                              Parseable(dailyContainer))

\* C8: the weekly callback ends whatever the day field holds: the search for
\* the first matching weekday takes at most a week of steps.
C8_SearchEndsWithinAWeek == searchSteps <= DAYS_IN_WEEK

\* The records of a container with a field that is not blank.
NotBlank(items) == SelectSeq(items, LAMBDA e : \E f \in DOMAIN e : e[f] # <<>>)

\* The form a page load makes of the saved data.
Reloaded ==
    LET data == localStorage[1]
    IN  [monthly |-> loadExpenses(data.monthlyExpenses, <<>>, "monthly"),
         weekly |-> loadExpenses(data.weeklyExpenses, <<>>, "weekly"),
         daily |-> loadExpenses(data.dailyExpenses, <<>>, "daily"),
         payDay |-> loadPayDay(data, DefaultPayDay)]

\* C9: after any add, edit and remove events, each saved, a reload makes of
\* the saved data the current records, in their order per cadence and with
\* their names, amounts and days, less the records whose every field is blank,
\* and the current pay day; saving the reloaded form stores the same data.
C9_ReloadReproducesForm ==
    localStorage # <<>> =>
        /\ Reloaded.monthly = NotBlank(monthlyContainer)
        /\ Reloaded.weekly = NotBlank(weeklyContainer)
        /\ Reloaded.daily = NotBlank(dailyContainer)
        /\ Reloaded.payDay = payDayInput
        /\ SavedData(Reloaded.monthly, Reloaded.weekly, Reloaded.daily, Reloaded.payDay)
              = localStorage[1]

\* C9 witness: a blank weekly record before one with an amount and a day, and
\* a pay day other than the default, have been saved.
C9_Witness ==
    /\ Len(weeklyContainer) = 2
    /\ weeklyContainer[1] = TemplateItem("weekly")
    /\ weeklyContainer[2].amount = <<"2">>
    /\ weeklyContainer[2].day = <<"3">>
    /\ payDayInput = NumberToString(10)
    /\ localStorage # <<>>
    /\ Len(localStorage[1].weeklyExpenses) = 1
====
